---- MODULE Spec2Model ----
(***************************************************************************)
(* employee-connect: XML form generator (src/src/App.tsx).                 *)
(*                                                                         *)
(* The component App holds four pieces of React state (xmlContent,         *)
(* formData, error, formValues) and four handlers (handleFileUpload with   *)
(* its FileReader onload callback, parseXml, handleInputChange,            *)
(* handleFormSubmit).  Strings are sequences of one-character strings so   *)
(* that quoting, joining and text extraction are computed character by     *)
(* character.  An XML text is a sequence of tokens (open tag, close tag,   *)
(* character data); DOMParser.parseFromString builds the element tree from *)
(* the tokens and, as browsers do, yields a document holding a             *)
(* <parsererror> element when the text is not well formed.                 *)
(***************************************************************************)
EXTENDS Integers, Sequences, FiniteSets, TLC

VARIABLES
    xmlContent,   \* useState<string>('')            : the upload buffer
    formData,     \* useState<FormData | null>(null) : the form model
    error,        \* useState<string | null>(null)   : the error message
    formValues,   \* useState<Record<string,string>> : the value map
    pending,      \* FileReaders whose readAsText has not completed yet
    csvContent,   \* the CSV text handed to the download by the last event
    event,        \* history: the handler that ran last
    outcome,      \* history: how the last parseXml ended
    before,       \* history: formData/formValues as parseXml found them
    entered,      \* history: last value typed per field id since the parse
    latest        \* history: text of the most recently selected file

vars == <<xmlContent, formData, error, formValues, pending, csvContent,
          event, outcome, before, entered, latest>>

----------------------------------------------------------------------------
(* Strings *)

Q  == "\""
NL == "\n"
SP == " "
COMMA == ","

S_true  == <<"t","r","u","e">>
S_True  == <<"T","r","u","e">>
S_false == <<"f","a","l","s","e">>
S_Text     == <<"T","e","x","t">>
S_Number   == <<"N","u","m","b","e","r">>
S_Textarea == <<"T","e","x","t","a","r","e","a">>
S_Dropdown == <<"D","r","o","p","d","o","w","n">>
S_Date     == <<"D","a","t","e">>

RECURSIVE Concat(_)
Concat(ss) == IF ss = <<>> THEN <<>> ELSE Head(ss) \o Concat(Tail(ss))

\* Array.prototype.join
RECURSIVE Join(_, _)
Join(ss, sep) ==
    IF ss = <<>> THEN <<>>
    ELSE IF Len(ss) = 1 THEN ss[1]
    ELSE ss[1] \o sep \o Join(Tail(ss), sep)

\* String.prototype.replace(/"/g, '""')
RECURSIVE ReplaceQuotes(_)
ReplaceQuotes(s) ==
    IF s = <<>> THEN <<>>
    ELSE (IF Head(s) = Q THEN <<Q, Q>> ELSE <<Head(s)>>) \o ReplaceQuotes(Tail(s))

\* the template literal `"${...}"`
Quoted(s) == <<Q>> \o s \o <<Q>>

\* Boolean.prototype.toString
BoolToString(b) == IF b THEN S_true ELSE S_false

----------------------------------------------------------------------------
(* XML text and the DOM *)

O(tag) == <<[k |-> "open",  tag |-> tag, text |-> <<>>]>>
C(tag) == <<[k |-> "close", tag |-> tag, text |-> <<>>]>>
T(s)   == <<[k |-> "text",  tag |-> "",  text |-> s]>>
El(tag, content) == O(tag) \o content \o C(tag)

Max(S) == CHOOSE x \in S : \A y \in S : y <= x

\* the members of a set of numbers, in increasing order
Sorted(S) == [k \in 1..Cardinality(S) |-> CHOOSE x \in S : Cardinality({y \in S : y <= x}) = k]

\* a function on 1..n evaluated once, as a table
Table(f, n) == SubSeq(f, 1, n)

\* nesting depth in front of each token (and behind the last one)
Depth(toks) ==
    Table([i \in 1..(Len(toks) + 1) |->
              Cardinality({j \in 1..(i - 1) : toks[j].k = "open"})
              - Cardinality({j \in 1..(i - 1) : toks[j].k = "close"})],
          Len(toks) + 1)

\* the token that opened the element token i lies in (or closes); 0 if none
Opener(toks, d, i) ==
    LET c == {j \in 1..(i - 1) : toks[j].k = "open" /\ d[j] = d[i] - 1}
    IN IF c = {} THEN 0 ELSE Max(c)

\* XML well-formedness: one root element, every tag closed by its own name
\* in nesting order, no character data outside the root
WellFormed(toks) ==
    LET d == Depth(toks) IN
    /\ toks # <<>>
    /\ d[Len(toks) + 1] = 0
    /\ Cardinality({i \in 1..Len(toks) : toks[i].k = "open" /\ d[i] = 0}) = 1
    /\ \A i \in 1..Len(toks) :
          /\ toks[i].k # "open" => d[i] >= 1
          /\ toks[i].k = "close" => toks[Opener(toks, d, i)].tag = toks[i].tag

\* The tree of a well-formed text: its elements and text nodes in document
\* order, each with the index of its parent (0 for the document itself).
Tree(toks) ==
    LET d    == Depth(toks)
        \* how many nodes the tokens up to p make
        rank == Table([p \in 1..Len(toks) |->
                          Cardinality({q \in 1..p : toks[q].k # "close"})], Len(toks))
        idx(p) == IF p = 0 THEN 0 ELSE rank[p]
        size == IF toks = <<>> THEN 0 ELSE rank[Len(toks)]
        pos(n) == CHOOSE p \in 1..Len(toks) : toks[p].k # "close" /\ rank[p] = n
    IN Table([n \in 1..size |->
                 [ tag    |-> IF toks[pos(n)].k = "open" THEN toks[pos(n)].tag ELSE "#text",
                   parent |-> idx(Opener(toks, d, pos(n))),
                   text   |-> toks[pos(n)].text ]], size)

\* What the browser returns for a text that is not well formed.
ParserErrorDoc ==
    << [tag |-> "parsererror", parent |-> 0, text |-> <<>>],
       [tag |-> "#text", parent |-> 1, text |-> <<"e","r","r">>] >>

\* new DOMParser().parseFromString(text, 'text/xml')
parseFromString(text) == IF WellFormed(text) THEN Tree(text) ELSE ParserErrorDoc

RECURSIVE IsDescendant(_, _, _)
IsDescendant(doc, i, ctx) ==
    LET p == doc[i].parent IN
    IF p = ctx THEN TRUE ELSE IF p = 0 THEN FALSE ELSE IsDescendant(doc, p, ctx)

\* Element.getElementsByTagName / Document.getElementsByTagName (ctx = 0):
\* the descendant elements with that tag name, in document order.
getElementsByTagName(doc, ctx, name) ==
    Sorted({i \in 1..Len(doc) : doc[i].tag = name /\ IsDescendant(doc, i, ctx)})

TextOf(doc, ctx) ==
    LET ts == Sorted({i \in 1..Len(doc) : doc[i].tag = "#text" /\ IsDescendant(doc, i, ctx)})
    IN Concat([k \in 1..Len(ts) |-> doc[ts[k]].text])

\* Node.textContent of an element
textContent(doc, n) == TextOf(doc, n)

----------------------------------------------------------------------------
(* parseXml: the document-to-model transformation *)

Undefined == [def |-> FALSE, text |-> <<>>]

\* variant: takes the last matching element instead of the first
FirstTextContent_Last(doc, field, name) ==
    LET els == getElementsByTagName(doc, field, name) IN
    IF els = <<>> THEN Undefined
    ELSE [def |-> TRUE, text |-> textContent(doc, els[Len(els)])]

\* field.getElementsByTagName(name)[0]?.textContent
FirstTextContent(doc, field, name) ==
    LET els == getElementsByTagName(doc, field, name) IN
    IF els = <<>> THEN Undefined ELSE [def |-> TRUE, text |-> textContent(doc, els[1])]

\* x || ''
OrEmpty(x) == IF x.def /\ x.text # <<>> THEN x.text ELSE <<>>

\* variant: also accepts the capitalised spelling
IsTrue_Lenient(x) == x.def /\ x.text \in {S_true, S_True}

\* x === 'true'
IsTrue(x) == x.def /\ x.text = S_true

RECURSIVE ItemTexts(_, _)
ItemTexts(doc, items) ==
    IF items = <<>> THEN <<>>
    ELSE LET itemText == OrEmpty([def |-> TRUE, text |-> textContent(doc, Head(items))])
         IN (IF itemText # <<>> THEN <<itemText>> ELSE <<>>) \o ItemTexts(doc, Tail(items))

ListItems(doc, field) ==
    LET lists == getElementsByTagName(doc, field, "List") IN
    IF lists = <<>> THEN <<>>
    ELSE ItemTexts(doc, getElementsByTagName(doc, lists[1], "Item"))

FieldOf(doc, field) ==
    [ Id          |-> OrEmpty(FirstTextContent(doc, field, "Id")),
      Label       |-> OrEmpty(FirstTextContent(doc, field, "Label")),
      Type        |-> OrEmpty(FirstTextContent(doc, field, "Type")),
      List        |-> [Item |-> ListItems(doc, field)],
      Visible     |-> IsTrue(FirstTextContent(doc, field, "Visible")),
      Mandatory   |-> IsTrue(FirstTextContent(doc, field, "Mandatory")),
      DisplayOnly |-> IsTrue(FirstTextContent(doc, field, "DisplayOnly")),
      Comment     |-> OrEmpty(FirstTextContent(doc, field, "Comment")) ]

FieldsOf(doc) ==
    LET fieldElements == getElementsByTagName(doc, 0, "Field") IN
    [i \in 1..Len(fieldElements) |-> FieldOf(doc, fieldElements[i])]

NoError         == "null"
MsgEmpty        == "Please upload an XML file first"
MsgMalformed    == "Invalid XML file"
MsgNoFields     == "No Field elements found in the XML"
MsgNoValid      == "No valid fields found in the XML"

HasParserError(doc) == getElementsByTagName(doc, 0, "parsererror") # <<>>

\* The body of parseXml up to its state updates: how the text is classified
\* and, on success, the fields it yields.
Parse(text) ==
    IF text = <<>> THEN [outcome |-> "Empty", error |-> MsgEmpty, fields |-> <<>>]
    ELSE LET xmlDoc == parseFromString(text) IN
         IF HasParserError(xmlDoc)
         THEN [outcome |-> "Malformed", error |-> MsgMalformed, fields |-> <<>>]
         ELSE IF getElementsByTagName(xmlDoc, 0, "Field") = <<>>
         THEN [outcome |-> "NoFields", error |-> MsgNoFields, fields |-> <<>>]
         ELSE LET fields == FieldsOf(xmlDoc) IN
              IF Len(fields) = 0
              THEN [outcome |-> "NoFields", error |-> MsgNoValid, fields |-> <<>>]
              ELSE [outcome |-> "Ok", error |-> NoError, fields |-> fields]

NullFormData == [null |-> TRUE, Form |-> [Field |-> <<>>]]

SeededIds(fields) ==
    {fields[i].Id : i \in {j \in 1..Len(fields) : fields[j].Visible /\ ~fields[j].DisplayOnly}}

initialValues(fields) == [id \in SeededIds(fields) |-> <<>>]

\* variant: a failed parse clears the form
FormDataAfterParse_Clearing(r, prev) ==
    IF r.outcome = "Ok" THEN [null |-> FALSE, Form |-> [Field |-> r.fields]]
    ELSE NullFormData

\* variant: a successful parse keeps the values typed under surviving ids
FormValuesAfterParse_Keeping(r, prev) ==
    IF r.outcome = "Ok"
    THEN [id \in SeededIds(r.fields) |-> IF id \in DOMAIN prev THEN prev[id] ELSE <<>>]
    ELSE prev

\* variant: a successful parse clears the error
ErrorAfterParse_Resetting(r, prev) ==
    IF r.outcome = "Ok" THEN NoError ELSE r.error

\* The three state updates of parseXml, given the classification r.
FormDataAfterParse(r, prev) ==
    IF r.outcome = "Ok" THEN [null |-> FALSE, Form |-> [Field |-> r.fields]] ELSE prev

FormValuesAfterParse(r, prev) ==
    IF r.outcome = "Ok" THEN initialValues(r.fields) ELSE prev

ErrorAfterParse(r, prev) ==
    IF r.outcome = "Ok" THEN prev ELSE r.error

----------------------------------------------------------------------------
(* handleFormSubmit: the model-to-CSV transformation *)

headers ==
    << <<"I","d">>, <<"L","a","b","e","l">>, <<"T","y","p","e">>,
       <<"V","a","l","u","e">>, <<"V","i","s","i","b","l","e">>,
       <<"M","a","n","d","a","t","o","r","y">>,
       <<"D","i","s","p","l","a","y","O","n","l","y">>,
       <<"C","o","m","m","e","n","t">> >>

\* variant: the value is written without doubling its quotes
ValueCell_Unescaped(values, id) ==
    IF id \in DOMAIN values THEN values[id] ELSE <<>>

\* formValues[field.Id]?.replace(/"/g, '""') || ''
ValueCell(values, id) ==
    IF id \in DOMAIN values THEN ReplaceQuotes(values[id]) ELSE <<>>

rowData(field, values) ==
    << field.Id,
       Quoted(ReplaceQuotes(field.Label)),
       field.Type,
       Quoted(ValueCell(values, field.Id)),
       BoolToString(field.Visible),
       BoolToString(field.Mandatory),
       BoolToString(field.DisplayOnly),
       Quoted(ReplaceQuotes(field.Comment)) >>

RECURSIVE Rows(_, _)
Rows(fields, values) ==
    IF fields = <<>> THEN <<>>
    ELSE (IF Head(fields).Visible
          THEN Join(rowData(Head(fields), values), <<COMMA>>) \o <<NL>>
          ELSE <<>>)
         \o Rows(Tail(fields), values)

Serialize(fields, values) == Join(headers, <<COMMA>>) \o <<NL>> \o Rows(fields, values)

----------------------------------------------------------------------------
(* Inputs *)

MaxPending == 2     \* file reads in flight at once
MaxFields  == 2     \* Field elements per generated document

Txt(s) == IF s = <<>> THEN <<>> ELSE T(s)
Id(s)          == El("Id", Txt(s))
Label(s)       == El("Label", Txt(s))
Type(s)        == El("Type", Txt(s))
Visible(s)     == El("Visible", Txt(s))
Mandatory(s)   == El("Mandatory", Txt(s))
DisplayOnly(s) == El("DisplayOnly", Txt(s))
Comment(s)     == El("Comment", Txt(s))
Item(s)        == El("Item", Txt(s))
Form(content)  == El("Form", content)
Field(content) == El("Field", content)

\* Scenario A of the specification: one visible, mandatory Text field
FileA == Form(Field(Id(<<"a">>) \o Type(S_Text) \o Visible(S_true) \o Mandatory(S_true)))

\* a dropdown, a display-only field sharing its id, a field of a type the
\* form does not render, a hidden field and a display-only field of its own
FileB ==
    Form(   Field(Id(<<"a">>) \o Type(S_Dropdown) \o Visible(S_true)
                  \o El("List", Item(<<"x">>) \o Item(<<>>) \o Item(<<"y", Q>>)))
         \o Field(Id(<<"a">>) \o Label(<<"L", Q>>) \o Type(S_Text) \o Visible(S_true)
                  \o DisplayOnly(S_true))
         \o Field(Id(<<"b">>) \o Type(S_Date) \o Visible(S_true))
         \o Field(Id(<<"d">>) \o Type(S_Text) \o Mandatory(S_true) \o Visible(S_false))
         \o Field(Id(<<"c">>) \o Type(S_Number) \o Visible(S_true) \o DisplayOnly(S_true)
                  \o Comment(<<"k">>)))

FileNoFields == Form(El("Other", <<>>))
FileBad      == O("notxml")
FileEmpty    == <<>>

Files == {FileA, FileB, FileNoFields, FileBad, FileEmpty}

\* what a user can type into a text input or textarea / a number input
TextValues   == {<<>>, <<"h">>, <<"h", Q>>}
NumberValues == {<<>>, <<"7">>}

----------------------------------------------------------------------------
(* State *)

NoSnapshot == [taken |-> FALSE, formData |-> NullFormData, formValues |-> <<>>]

Init ==
    /\ xmlContent = <<>>
    /\ formData = NullFormData
    /\ error = NoError
    /\ formValues = <<>>
    /\ pending = <<>>
    /\ csvContent = <<>>
    /\ event = "init"
    /\ outcome = "none"
    /\ before = NoSnapshot
    /\ entered = <<>>
    /\ latest = <<>>

\* what an event that is neither a parse nor a submit leaves in the
\* per-event observations
Observe(name) ==
    /\ event' = name
    /\ outcome' = "none"
    /\ before' = NoSnapshot
    /\ csvContent' = <<>>

----------------------------------------------------------------------------
(* handleFileUpload and the FileReader callback *)

\* files is event.target.files: empty when the file dialog was cancelled
handleFileUpload(files) ==
    /\ error' = NoError
    /\ IF files = <<>>
       THEN UNCHANGED <<pending, latest>>
       ELSE /\ Len(pending) < MaxPending
            /\ pending' = Append(pending, files[1])
            /\ latest' = <<files[1]>>
    /\ Observe("handleFileUpload")
    /\ UNCHANGED <<xmlContent, formData, formValues, entered>>

FileUpload == \E files \in {<<>>} \cup {<<f>> : f \in Files} : handleFileUpload(files)

RemoveAt(s, i) == SubSeq(s, 1, i - 1) \o SubSeq(s, i + 1, Len(s))

\* reader.onload of the i-th reader still reading; reads complete in any order
onload(i) ==
    /\ xmlContent' = pending[i]
    /\ pending' = RemoveAt(pending, i)
    /\ Observe("onload")
    /\ UNCHANGED <<formData, error, formValues, entered, latest>>

ReadCompletes == \E i \in 1..Len(pending) : onload(i)

----------------------------------------------------------------------------
(* parseXml *)

parseXml ==
    \E r \in {Parse(xmlContent)} :
    /\ formData' = FormDataAfterParse(r, formData)
    /\ formValues' = FormValuesAfterParse(r, formValues)
    /\ error' = ErrorAfterParse(r, error)
    /\ event' = "parseXml"
    /\ outcome' = r.outcome
    /\ before' = [taken |-> TRUE, formData |-> formData, formValues |-> formValues]
    /\ entered' = IF r.outcome = "Ok" THEN <<>> ELSE entered
    /\ csvContent' = <<>>
    /\ UNCHANGED <<xmlContent, pending, latest>>

\* <button onClick={parseXml} disabled={!xmlContent}>
Generate ==
    /\ xmlContent # <<>>
    /\ parseXml

----------------------------------------------------------------------------
(* handleInputChange *)

Put(map, key, value) ==
    [k \in DOMAIN map \cup {key} |-> IF k = key THEN value ELSE map[k]]

handleInputChange(fieldId, value) ==
    /\ formValues' = Put(formValues, fieldId, value)
    /\ entered' = Put(entered, fieldId, value)
    /\ Observe("handleInputChange")
    /\ UNCHANGED <<xmlContent, formData, error, pending, latest>>

RenderedTypes == {S_Text, S_Number, S_Textarea, S_Dropdown}

\* renderForm draws an input for a field when ...
InputRendered(field) == field.Visible /\ field.Type \in RenderedTypes

\* variant: a display-only input can be edited
InputEnabled_IgnoringDisabled(field) == InputRendered(field)

\* ... and the input fires onChange unless disabled={field.DisplayOnly}
InputEnabled(field) == InputRendered(field) /\ ~field.DisplayOnly

Range(s) == {s[i] : i \in DOMAIN s}

ValuesFor(field) ==
    IF field.Type = S_Dropdown THEN {<<>>} \cup Range(field.List.Item)
    ELSE IF field.Type = S_Number THEN NumberValues
    ELSE TextValues

EditField ==
    /\ ~formData.null
    /\ \E i \in DOMAIN formData.Form.Field :
          LET field == formData.Form.Field[i] IN
          /\ InputEnabled(field)
          /\ \E value \in ValuesFor(field) : handleInputChange(field.Id, value)

----------------------------------------------------------------------------
(* handleFormSubmit *)

handleFormSubmit ==
    /\ csvContent' = IF formData.null THEN <<>>
                     ELSE Serialize(formData.Form.Field, formValues)
    /\ event' = "handleFormSubmit"
    /\ outcome' = "none"
    /\ before' = NoSnapshot
    /\ UNCHANGED <<xmlContent, formData, error, formValues, pending, entered, latest>>

\* value={formValues[field.Id] || ''}
Shown(values, id) == IF id \in DOMAIN values THEN values[id] ELSE <<>>

\* the browser refuses to submit while a required enabled input is empty
RequiredFilled ==
    \A i \in DOMAIN formData.Form.Field :
        LET field == formData.Form.Field[i] IN
        (InputEnabled(field) /\ field.Mandatory) => Shown(formValues, field.Id) # <<>>

\* the submit button exists only when some field is visible
Submit ==
    /\ ~formData.null
    /\ \E i \in DOMAIN formData.Form.Field : formData.Form.Field[i].Visible
    /\ RequiredFilled
    /\ handleFormSubmit

----------------------------------------------------------------------------
(* The application driven through its user interface *)

Next ==
    \/ FileUpload
    \/ ReadCompletes
    \/ Generate
    \/ EditField
    \/ Submit

Spec == Init /\ [][Next]_vars

----------------------------------------------------------------------------
(* The core on its own: parse applied to a text, then the serializer      *)
(* applied to the model and the freshly seeded value map.  The handlers    *)
(* are invoked directly, so the empty text reaches parseXml too.           *)

FieldVariants ==
    { \* Scenario A
      Field(Id(<<"a">>) \o Type(S_Text) \o Visible(S_true) \o Mandatory(S_true)),
      \* no Visible, Mandatory or DisplayOnly
      Field(Id(<<"b">>) \o Label(<<"L">>)),
      \* other spellings of true
      Field(Id(<<"c">>) \o Visible(S_True) \o Mandatory(<<"1">>) \o DisplayOnly(S_true)),
      \* text padded with white space
      Field(Id(<<SP, "a">>) \o Label(<<"L", SP>>) \o Visible(S_true)
            \o DisplayOnly(<<SP>> \o S_true)),
      \* duplicated children
      Field(Id(<<"a">>) \o Id(<<"b">>) \o Visible(S_false) \o Visible(S_true)
            \o Mandatory(S_true) \o Mandatory(S_false)),
      \* an Id below the List, in front of the Field's own Id
      Field(El("List", Id(<<"x">>) \o Item(<<"y">>) \o Item(<<>>)) \o Id(<<"a">>)
            \o Type(S_Dropdown) \o Visible(S_true)),
      \* line break in the Id, quote and line break in quoted columns
      Field(Id(<<"a", NL, "b">>) \o Label(<<"L", Q>>) \o Visible(S_true)
            \o Comment(<<"k", NL>>)),
      \* an element that happens to be called parsererror
      Field(El("parsererror", <<>>) \o Id(<<"a">>) \o Visible(S_true)),
      \* a Field inside a Field
      Field(Field(Id(<<"b">>) \o Visible(S_true)) \o Id(<<"a">>) \o Comment(<<"k">>)) }

RECURSIVE FieldLists(_)
FieldLists(n) ==
    IF n = 0 THEN {<<>>}
    ELSE LET shorter == FieldLists(n - 1) IN
         shorter \cup {fs \o f : fs \in shorter, f \in FieldVariants}

GeneratedDocuments == {Form(fs) : fs \in FieldLists(MaxFields)}

OtherTexts ==
    { <<>>,                                   \* empty file
      O("notxml"),                            \* Scenario C: unterminated tag
      O("a") \o C("b"),                       \* mismatched end tag
      Form(<<>>) \o Form(<<>>),               \* two roots
      T(<<"h">>),                             \* no element at all
      Form(El("Other", T(<<"h">>))),          \* well formed, no Field
      El("Field", <<>>),                      \* the root itself is a Field
      El("parsererror", <<>>) }

CoreInputs == GeneratedDocuments \cup OtherTexts

InitCore ==
    /\ xmlContent \in CoreInputs
    /\ formData = NullFormData
    /\ error = NoError
    /\ formValues = <<>>
    /\ pending = <<>>
    /\ csvContent = <<>>
    /\ event = "init"
    /\ outcome = "none"
    /\ before = NoSnapshot
    /\ entered = <<>>
    /\ latest = <<>>

NextCore ==
    \/ parseXml
    \/ handleFormSubmit

SpecCore == InitCore /\ [][NextCore]_vars

----------------------------------------------------------------------------
(* What the XML text says, read off the tokens *)

Min(S) == CHOOSE x \in S : \A y \in S : x <= y

\* the end tag of the element opened at token p
CloseOf(toks, p) ==
    LET d == Depth(toks) IN
    Min({q \in (p + 1)..Len(toks) : toks[q].k = "close" /\ d[q] = d[p] + 1})

\* start tags named tag anywhere inside the element opened at p
ElementsIn(toks, p, tag) ==
    {q \in (p + 1)..(CloseOf(toks, p) - 1) : toks[q].k = "open" /\ toks[q].tag = tag}

\* start tags named tag of the children of the element opened at p
ChildrenIn(toks, p, tag) ==
    LET d == Depth(toks) IN {q \in ElementsIn(toks, p, tag) : d[q] = d[p] + 1}

\* the character data inside the element opened at q
TextIn(toks, q) ==
    LET ts == Sorted({i \in (q + 1)..(CloseOf(toks, q) - 1) : toks[i].k = "text"})
    IN Concat([k \in 1..Len(ts) |-> toks[ts[k]].text])

FieldTokens(toks) ==
    Sorted({p \in 1..Len(toks) : toks[p].k = "open" /\ toks[p].tag = "Field"})

WhiteSpace == {SP, NL}

\* String.prototype.trim
Trim(s) ==
    LET keep == {i \in 1..Len(s) : s[i] \notin WhiteSpace} IN
    IF keep = {} THEN <<>> ELSE SubSeq(s, Min(keep), Max(keep))

FirstDescendantText(toks, p, tag) ==
    LET els == ElementsIn(toks, p, tag) IN
    IF els = {} THEN <<>> ELSE TextIn(toks, Min(els))

FirstChildTrimmedText(toks, p, tag) ==
    LET els == ChildrenIn(toks, p, tag) IN
    IF els = {} THEN <<>> ELSE Trim(TextIn(toks, Min(els)))

StringTags == {"Id", "Label", "Type", "Comment"}
FlagTags   == {"Visible", "Mandatory", "DisplayOnly"}

Parsed == event = "parseXml" /\ outcome = "Ok"
Failed == event = "parseXml" /\ outcome \in {"Empty", "Malformed", "NoFields"}
Model  == formData.Form.Field

\* CSV records of a text: line ends outside double quotes
Records(s) ==
    Cardinality({i \in 1..Len(s) :
        s[i] = NL /\ Cardinality({j \in 1..(i - 1) : s[j] = Q}) % 2 = 0})

Doubled(s) == Concat([i \in 1..Len(s) |-> IF s[i] = Q THEN <<Q, Q>> ELSE <<s[i]>>])

ExportedWith(value(_)) ==
    LET line(f) == f.Id \o <<COMMA, Q>> \o Doubled(f.Label) \o <<Q, COMMA>> \o f.Type
                   \o <<COMMA, Q>> \o Doubled(value(f.Id)) \o <<Q, COMMA>>
                   \o BoolToString(f.Visible) \o <<COMMA>> \o BoolToString(f.Mandatory)
                   \o <<COMMA>> \o BoolToString(f.DisplayOnly)
                   \o <<COMMA, Q>> \o Doubled(f.Comment) \o <<Q, NL>>
        shown == Sorted({i \in 1..Len(Model) : Model[i].Visible})
    IN Join(headers, <<COMMA>>) \o <<NL>> \o Concat([k \in 1..Len(shown) |-> line(Model[shown[k]])])

Stored(id)      == IF id \in DOMAIN formValues THEN formValues[id] ELSE <<>>
LastEntered(id) == IF id \in DOMAIN entered THEN entered[id] ELSE <<>>

----------------------------------------------------------------------------
(* Claims *)

\* C1: a parseXml that ends in Empty, Malformed or NoFields leaves the form
\* model and the value map exactly as it found them; only the error changes.
C1_FailedParseKeepsState ==
    Failed => (formData = before.formData /\ formValues = before.formValues)

\* C1 witness: a parse fails while a generated form with typed values exists
C1_Witness ==
    /\ Failed
    /\ ~before.formData.null
    /\ \E id \in DOMAIN before.formValues : before.formValues[id] # <<>>
    /\ error # NoError

\* C2: once a form is generated, whatever edits follow, the keys of the value
\* map are exactly the ids of the model's visible, not display-only fields.
C2_ValueMapKeys ==
    ~formData.null =>
        DOMAIN formValues =
            {Model[i].Id : i \in {j \in 1..Len(Model) : Model[j].Visible /\ ~Model[j].DisplayOnly}}

\* C2 witness: an edit has just happened on a form that also has a visible
\* display-only field and a hidden field
C2_Witness ==
    /\ event = "handleInputChange"
    /\ \E i \in 1..Len(Model) : Model[i].Visible /\ Model[i].DisplayOnly
    /\ \E i \in 1..Len(Model) : ~Model[i].Visible
    /\ \E id \in DOMAIN formValues : formValues[id] # <<>>

\* C3: a successful parse replaces the model by the one parsed from the
\* upload buffer and leaves a value map that holds the empty string under
\* every key, whatever model and values were there before.
C3_SuccessfulParseResets ==
    Parsed =>
        /\ Model = Parse(xmlContent).fields
        /\ DOMAIN formValues = SeededIds(Model)
        /\ \A id \in DOMAIN formValues : formValues[id] = <<>>
        /\ entered = <<>>

\* C3 witness: a successful parse over a different model with typed values
C3_Witness ==
    /\ Parsed
    /\ ~before.formData.null
    /\ before.formData # formData
    /\ \E id \in DOMAIN before.formValues : before.formValues[id] # <<>>

\* C4 (as stated): parse reports Empty exactly for the empty text, otherwise
\* Malformed exactly for a text that is not well formed, otherwise NoFields
\* exactly when the text has no Field element, and otherwise succeeds with
\* one descriptor per Field element, in document order.
C4_Classification ==
    event = "parseXml" =>
        LET ft == FieldTokens(xmlContent) IN
        /\ (outcome = "Empty") = (xmlContent = <<>>)
        /\ (outcome = "Malformed") = (xmlContent # <<>> /\ ~WellFormed(xmlContent))
        /\ (outcome = "NoFields") = (WellFormed(xmlContent) /\ ft = <<>>)
        /\ (outcome = "Ok") = (WellFormed(xmlContent) /\ ft # <<>>)
        /\ outcome = "Ok" =>
              /\ Len(Model) = Len(ft)
              /\ \A k \in 1..Len(ft) :
                    Model[k].Id = FirstDescendantText(xmlContent, ft[k], "Id")

\* C5 (as stated): the CSV of a parsed model with an all-empty value map has
\* one header row plus one row per visible field.
C5_RowCount ==
    (event = "handleFormSubmit" /\ ~formData.null
        /\ \A id \in DOMAIN formValues : formValues[id] = <<>>)
    => Records(csvContent) = 1 + Cardinality({i \in 1..Len(Model) : Model[i].Visible})

\* C6: in the exported CSV the Value column of every row is the string the
\* value map stores under the field's id (nothing stored: empty), with each
\* double quote doubled, in double quotes; and that string is the value last
\* entered for the id since the form was generated.
C6_ExportedValue ==
    (event = "handleFormSubmit" /\ ~formData.null) =>
        /\ csvContent = ExportedWith(Stored)
        /\ csvContent = ExportedWith(LastEntered)

\* C6 witness: an export after an edit that typed a double quote, of a form
\* that has a visible display-only field
C6_Witness ==
    /\ event = "handleFormSubmit"
    /\ \E id \in DOMAIN entered : \E i \in 1..Len(entered[id]) : entered[id][i] = Q
    /\ \E i \in 1..Len(Model) :
          Model[i].Visible /\ Model[i].DisplayOnly /\ Model[i].Id \notin DOMAIN formValues

\* C7 (as stated): Id, Label, Type and Comment of a descriptor are the
\* trimmed text of the first child of the Field with that tag name, and the
\* empty string when there is no such child.
C7_FirstChildTrimmed ==
    Parsed =>
        LET ft == FieldTokens(xmlContent) IN
        \A k \in 1..Len(ft) : \A tag \in StringTags :
            Model[k][tag] = FirstChildTrimmedText(xmlContent, ft[k], tag)

\* C7 (amended): Id, Label, Type and Comment of a descriptor are the text
\* content, as it stands, of the first element with that tag name inside the
\* Field, in document order, and the empty string when there is none.
C7_FirstDescendantVerbatim ==
    Parsed =>
        LET ft == FieldTokens(xmlContent) IN
        /\ Len(Model) = Len(ft)
        /\ \A k \in 1..Len(ft) : \A tag \in StringTags :
              Model[k][tag] = FirstDescendantText(xmlContent, ft[k], tag)

\* C7 witness: a parsed Field with two Id elements, the first one padded
C7_Witness ==
    /\ Parsed
    /\ LET ft == FieldTokens(xmlContent) IN
       \E k \in 1..Len(ft) : \E j \in 1..Len(ft) :
          /\ Cardinality(ElementsIn(xmlContent, ft[k], "Id")) > 1
          /\ Model[j].Id # Trim(Model[j].Id)

\* C8: Visible, Mandatory and DisplayOnly of a descriptor are true exactly
\* when the Field's element of that name (the first one, if several) has the
\* text "true", letter for letter; no such element, or other text: false.
C8_StrictBooleans ==
    Parsed =>
        LET ft == FieldTokens(xmlContent) IN
        \A k \in 1..Len(ft) : \A tag \in FlagTags :
            Model[k][tag] = (/\ ElementsIn(xmlContent, ft[k], tag) # {}
                             /\ FirstDescendantText(xmlContent, ft[k], tag) = S_true)

\* C8 witness: parsed fields, one with <Visible>True</Visible> read as false,
\* one without any of the three elements, one with a flag read as true
C8_Witness ==
    /\ Parsed
    /\ LET ft == FieldTokens(xmlContent) IN
       /\ \E k \in 1..Len(ft) :
             /\ FirstDescendantText(xmlContent, ft[k], "Visible") = S_True
             /\ ~Model[k].Visible /\ Model[k].DisplayOnly
       /\ \E k \in 1..Len(ft) :
             /\ \A tag \in FlagTags : ElementsIn(xmlContent, ft[k], tag) = {}
             /\ \A tag \in FlagTags : ~Model[k][tag]

\* C9 (as stated): once no read is pending, the upload buffer holds the
\* text of the most recently selected file.
C9_LatestSelectionWins ==
    (pending = <<>> /\ latest # <<>>) => xmlContent = latest[1]

\* C10: the error message changes only when a failing parseXml sets it or
\* when handleFileUpload resets it to null; a successful parseXml, an edit,
\* a completed read and a submit leave it as it is.
C10_ErrorFrame ==
    [][ error' # error =>
          \/ event' = "parseXml" /\ outcome' \in {"Empty", "Malformed", "NoFields"}
                /\ error' # NoError
          \/ event' = "handleFileUpload" /\ error' = NoError ]_vars

\* C10 witness: an earlier error is still displayed after a successful parse
C10_Witness == Parsed /\ error # NoError
====
